---- MODULE Spec2Model ----
(***************************************************************************)
(* ipwatch: the service-list cache (ServerList), the external/local        *)
(* address resolver (IPgetter), the retry loop of the driver (getips) and  *)
(* the driver's cycle (main), as a state machine.                          *)
(*                                                                         *)
(* Strings the program inspects character by character (addresses,         *)
(* blacklist patterns) are sequences of one-character strings; the empty   *)
(* string is << >>.  Opaque strings (service URLs, exception names) are     *)
(* TLA+ strings.  Time is counted in days.                                 *)
(***************************************************************************)
EXTENDS Integers, Sequences, FiniteSets, TLC

VARIABLES
    now,          \* datetime.now(), in days
    ticks,        \* how often the clock was advanced
    cacheFile,    \* content of <user cache dir>/serverCache.json
    bundled,      \* state of the packaged data/servers.json
    downloads,    \* number of urlopen(URL) downloads of the service list
    savedFile,    \* content of saved_ip.txt: NoSaved or its lines
    mails,        \* number of /usr/bin/mail runs
    pc,           \* position of the (single, synchronous) process
    op,           \* the operation the caller invoked last
    result,       \* how that operation ended
    file,         \* ServerList.__init__: the file argument
    server_list,  \* ServerList.server_list
    slSource,     \* where server_list was taken from
    slCache,      \* outcome of from_cache() in this construction
    slSeen,       \* the cache content and the time from_cache() saw
    slRefreshed,  \* the except CacheExpired branch was entered
    ipgetter,     \* IPgetter.server_list: a ServerList object or a plain list
    local_ip,     \* get_ips: local_ip
    i,            \* get_externalip: iterations of range(7) completed
    server,       \* get_externalip: server
    myipv,        \* get_externalip: myip
    nFetch,       \* fetches issued by this get_externalip call
    firstSucc,    \* the first fetch of this call that yielded an address
    answer,       \* fetch: what the server queried last answered
    try_count,    \* getips: try_count
    blacklist,    \* getips: blacklist
    counter,      \* getips: counter
    fetchTotal,   \* fetches issued during this getips call
    fetchSucc,    \* those of them that yielded an address
    args,         \* main: args.force, args.dry_run, args.repeat
    old,          \* main: old_external_ip, old_local_ip
    acquired,     \* main: getips returned a value in this cycle
    cycleNotify,  \* main: sendmail calls in this cycle
    fCand,        \* validator under test: the candidate string
    fBl,          \* validator under test: the blacklist string
    fOut,         \* validator under test: what the functions returned
    prevList,     \* the list the ServerList built just before held, << >> if none
    cycles,       \* main: cycles of the while loop started
    rpc,          \* concurrent constructors: position of each process
    rsl,          \* concurrent constructors: each process's from_cache
                  \* outcome, server_list, result and what it wrote
    flen,         \* concurrent constructors: length of serverCache.json
    cfgFile,      \* read_config: the config file, its options as parsed
    config        \* read_config: what the call returned or raised

envVars == <<now, ticks, bundled>>
diskVars == <<savedFile, mails>>
slVars == <<file, server_list, slSource, slCache, slSeen, slRefreshed>>
ipVars ==
    <<ipgetter, local_ip, i, server, myipv, nFetch, firstSucc, answer>>
giVars == <<try_count, blacklist, counter, fetchTotal, fetchSucc>>
mainVars == <<args, old, acquired, cycleNotify>>
filterVars == <<fCand, fBl, fOut>>
histVars == <<prevList, cycles>>
raceVars == <<rpc, rsl, flen>>
cfgVars == <<cfgFile, config>>
vars == <<now, ticks, cacheFile, bundled, downloads, savedFile, mails,
          pc, op, result,
          file, server_list, slSource, slCache, slSeen, slRefreshed,
          ipgetter, local_ip, i, server, myipv, nFetch, firstSucc,
          try_count, blacklist, counter, fetchTotal, fetchSucc,
          args, old, acquired, cycleNotify, fCand, fBl, fOut,
          prevList, cycles, rpc, rsl, flen, answer, cfgFile, config>>

----------------------------------------------------------------------------
(* Bounds of the model *)
MaxTicks == 1
MaxDownloads == 1
MaxTry == 2
StartNow == 1
MaxCycles == 2

(* timedelta(days=90) in to_cache *)
CacheDays == 90
(* range(7) in get_externalip *)
FetchRange == 7

----------------------------------------------------------------------------
(* JSON values as json.load returns them.  A field of a JSON object is     *)
(* missing, null, a float, a list of strings, or "other" (an int, a str, a  *)
(* bool, a dict: a value that is neither None, nor a float, nor a list).   *)
Missing == [t |-> "missing", n |-> 0, l |-> << >>]
Null == [t |-> "null", n |-> 0, l |-> << >>]
Other == [t |-> "other", n |-> 0, l |-> << >>]
Float(x) == [t |-> "float", n |-> x, l |-> << >>]
List(s) == [t |-> "list", n |-> 0, l |-> s]

Keys == {"expiry", "expiryDisplay", "servers"}

(* The cache file: absent, not parsable as JSON (empty, garbage, a strict  *)
(* prefix of a serialisation), or a JSON value: null, a scalar (number or  *)
(* bool), a string or an array (has: the keys it contains as a substring,  *)
(* resp. as an element), or an object with its fields.                     *)
Doc(k, h, e, d, s) ==
    [kind |-> k, has |-> h, expiry |-> e, expiryDisplay |-> d, servers |-> s]
Absent == Doc("absent", {}, Missing, Missing, Missing)
Unparsable == Doc("unparsable", {}, Missing, Missing, Missing)
JsonNull == Doc("null", {}, Missing, Missing, Missing)
JsonScalar == Doc("scalar", {}, Missing, Missing, Missing)
JsonString(h) == Doc("string", h, Missing, Missing, Missing)
JsonArray(h) == Doc("array", h, Missing, Missing, Missing)
Obj(e, d, s) == Doc("object", {}, e, d, s)

BundledServers == <<"s1", "s2">>
OverrideServers == <<"s3">>

InitExpiries == {StartNow - 1, StartNow, StartNow + 1}
ExpiryFields == {Missing, Null, Other} \cup {Float(x) : x \in InitExpiries}
ServersFields ==
    {Missing, Null, Other, List(<< >>), List(<<"s2">>), List(<<"s1", "s3">>)}
InitCaches ==
    {Absent, Unparsable, JsonNull, JsonScalar}
    \cup {JsonString(h) : h \in {{}, {"expiry"}, Keys}}
    \cup {JsonArray(h) : h \in {{}, {"expiry", "servers"}, Keys}}
    \cup {Obj(e, Other, s) : e \in ExpiryFields, s \in ServersFields}
    \cup {Obj(Float(StartNow + 1), d, List(<<"s2">>)) : d \in {Missing, Null}}

(* The file argument of ServerList(file): None, a path that does not       *)
(* exist, or a file holding the JSON list OverrideServers.                 *)
NoFile == "None"
Files == {NoFile, "missing", "good"}

NoResult == [status |-> "none", exc |-> "none"]
Ok == [status |-> "ok", exc |-> "none"]
Raised(e) == [status |-> "raised", exc |-> e]

----------------------------------------------------------------------------
(* ServerList.from_cache: the outcome for cache content c read at time     *)
(* current_ts.  The conditions are evaluated in the order of the source.   *)
from_cache_no_empty_check(c, current_ts) ==
    IF c.kind \in {"absent", "unparsable", "null"}
    THEN [out |-> "CacheExpired", servers |-> << >>]
    ELSE IF c.kind = "scalar"
    THEN [out |-> "TypeError", servers |-> << >>]
    ELSE IF c.kind \in {"string", "array"}
    THEN IF Keys \subseteq c.has
         THEN [out |-> "TypeError", servers |-> << >>]
         ELSE [out |-> "CacheExpired", servers |-> << >>]
    ELSE IF \/ c.expiry.t = "missing"
            \/ c.expiryDisplay.t = "missing"
            \/ c.servers.t = "missing"
            \/ c.expiry.t = "null"
            \/ c.expiryDisplay.t = "null"
            \/ c.servers.t = "null"
            \/ c.expiry.t # "float"
            \/ c.servers.t # "list"
            \/ c.expiry.n < current_ts
    THEN [out |-> "CacheExpired", servers |-> << >>]
    ELSE [out |-> "ok", servers |-> c.servers.l]

(* from_cache judging every cache expired *)
from_cache_always_expired(c, current_ts) ==
    IF c.kind = "scalar" \/ (c.kind \in {"string", "array"} /\ Keys \subseteq c.has)
    THEN [out |-> "TypeError", servers |-> << >>]
    ELSE [out |-> "CacheExpired", servers |-> << >>]

from_cache(c, current_ts) ==
    \* cache_content is None: no file, json.load raised, or the JSON null
    IF c.kind \in {"absent", "unparsable", "null"}
    THEN [out |-> "CacheExpired", servers |-> << >>]
    \* "expiry" not in <number or bool>: TypeError, not iterable
    ELSE IF c.kind = "scalar"
    THEN [out |-> "TypeError", servers |-> << >>]
    \* str: substring test, list: membership; then cache_content["expiry"]
    \* raises TypeError (indices must be integers)
    ELSE IF c.kind \in {"string", "array"}
    THEN IF Keys \subseteq c.has
         THEN [out |-> "TypeError", servers |-> << >>]
         ELSE [out |-> "CacheExpired", servers |-> << >>]
    ELSE IF \/ c.expiry.t = "missing"
            \/ c.expiryDisplay.t = "missing"
            \/ c.servers.t = "missing"
            \/ c.expiry.t = "null"
            \/ c.expiryDisplay.t = "null"
            \/ c.servers.t = "null"
            \/ c.expiry.t # "float"
            \* len(str(expiry)) == 0 is false of every float
            \/ c.servers.t # "list"
            \/ Len(c.servers.l) = 0
            \/ c.expiry.n < current_ts
    THEN [out |-> "CacheExpired", servers |-> << >>]
    ELSE [out |-> "ok", servers |-> c.servers.l]

(* ServerList.from_file: open(file) is a text-mode file, so f.read() is a  *)
(* str, and str has no decode().                                           *)
from_file(f) ==
    IF f = "missing"
    THEN [out |-> "FileNotFoundError", servers |-> << >>]
    ELSE [out |-> "AttributeError", servers |-> << >>]

(* ServerList.builtin: the packaged servers.json *)
builtin(b) ==
    IF b = "ok"
    THEN [out |-> "ok", servers |-> BundledServers]
    ELSE [out |-> "FileNotFoundError", servers |-> << >>]

(* to_cache writing the list without its first element *)
cache_content_tail(ts, servers) ==
    Obj(Float(ts + CacheDays), Other, List(Tail(servers)))

(* to_cache writing datetime.now() itself as the expiry *)
cache_content_no_ttl(ts, servers) == Obj(Float(ts), Other, List(servers))

(* The value json.load reads back from what to_cache writes at time ts:    *)
(* datetime.timestamp() is a float and json.dumps writes it with a         *)
(* fraction, strftime gives a str, the list is written as a JSON array.    *)
cache_content(ts, servers) == Obj(Float(ts + CacheDays), Other, List(servers))

----------------------------------------------------------------------------
(* Strings *)
IP_PUB == <<"8", ".", "8", ".", "8", ".", "8">>
IP_PRIV == <<"1", "0", ".", "0", ".", "0", ".", "1">>
IP_LAN == <<"1", "9", "2", ".", "1", "6", "8", ".", "1", ".", "5">>
IP_ALT == <<"9", ".", "9", ".", "9", ".", "9">>
LOOPBACK == <<"1", "2", "7", ".", "0", ".", "0", ".", "1">>
IP_999 == <<"9", "9", "9", ".", "1", ".", "1", ".", "1">>
S_3GROUPS == <<"8", ".", "8", ".", "8">>
S_5GROUPS == <<"8", ".", "8", ".", "8", ".", "8", ".", "8">>
S_4DIGITS == <<"1", "2", "3", "4", ".", "1", ".", "1", ".", "1">>
S_NEWLINE == <<"8", ".", "8", ".", "8", ".", "8", "\n">>
S_LEAD == <<"x", "8", ".", "8", ".", "8", ".", "8">>
S_TRAIL == <<"8", ".", "8", ".", "8", ".", "8", "x">>
S_EMPTYGROUP == <<"8", ".", ".", "8", ".", "8">>
S_ALPHA == <<"a", ".", "b", ".", "c", ".", "d">>
(* DEFAULT_BLACKLIST = "192.168.*.*,10.*.*.*" *)
DEFAULT_BLACKLIST ==
    <<"1", "9", "2", ".", "1", "6", "8", ".", "*", ".", "*", ",",
      "1", "0", ".", "*", ".", "*", ".", "*">>
BL_ONE == <<"8", ".", "8", ".", "8", ".", "8">>
BL_STAR == <<"*">>
BL_PREFIX == <<"1", "0", ".", "*">>
BL_QUESTION == <<"8", ".", "8", ".", "8", ".", "?">>
BL_TRAILCOMMA == <<"8", ".", "8", ".", "8", ".", "8", ",">>
BL_SPACE ==
    <<"1", "0", ".", "*", ".", "*", ".", "*", ",", " ",
      "8", ".", "*", ".", "*", ".", "*">>
BL_SECOND ==
    <<"1", "0", ".", "*", ".", "*", ".", "*", ",",
      "8", ".", "*", ".", "*", ".", "*">>
BL_NONE == <<"1", "2", "7", ".", "*">>
BL_BOTH == <<"*", ".", "8", ",", "8", ".", "*">>

Candidates ==
    {<< >>, IP_PUB, IP_PRIV, IP_LAN, LOOPBACK, IP_999, S_3GROUPS, S_5GROUPS,
     S_4DIGITS, S_NEWLINE, S_LEAD, S_TRAIL, S_EMPTYGROUP, S_ALPHA}
Blacklists ==
    {<< >>, DEFAULT_BLACKLIST, BL_ONE, BL_STAR, BL_PREFIX, BL_QUESTION,
     BL_TRAILCOMMA, BL_SPACE, BL_SECOND, BL_NONE, BL_BOTH}

Digits == {"0", "1", "2", "3", "4", "5", "6", "7", "8", "9"}

(* str.split(sep): the pieces of s between the occurrences of sep; no      *)
(* occurrence gives the one piece s, also for the empty string.            *)
RECURSIVE split(_, _)
split(s, sep) ==
    IF \A k \in 1..Len(s) : s[k] # sep
    THEN <<s>>
    ELSE LET k == CHOOSE k \in 1..Len(s) :
                    s[k] = sep /\ \A j \in 1..(k - 1) : s[j] # sep
         IN <<SubSeq(s, 1, k - 1)>> \o split(SubSeq(s, k + 1, Len(s)), sep)

(* \d{1,3}\.\d{1,3}\.\d{1,3}\.\d{1,3} matching the whole of s: four groups  *)
(* of one to three digits between three dots.                              *)
MatchesQuad(s) ==
    LET groups == split(s, ".") IN
        /\ Len(groups) = 4
        /\ \A g \in 1..4 :
            /\ Len(groups[g]) \in 1..3
            /\ \A k \in 1..Len(groups[g]) : groups[g][k] \in Digits

(* isipaddr: pattern.match(ipstr) with ^...$; $ matches at the end of the  *)
(* string and also just before a newline that ends the string.             *)
isipaddr(ipstr) ==
    \/ MatchesQuad(ipstr)
    \/ /\ Len(ipstr) > 0
       /\ ipstr[Len(ipstr)] = "\n"
       /\ MatchesQuad(SubSeq(ipstr, 1, Len(ipstr) - 1))

(* fnmatch.fnmatch(name, pat) for patterns of literals, * and ?: the whole *)
(* name must match; * is any run of characters, ? any one character.       *)
RECURSIVE fnmatch(_, _)
fnmatch(name, pat) ==
    IF pat = << >>
    THEN name = << >>
    ELSE IF Head(pat) = "*"
    THEN \/ fnmatch(name, Tail(pat))
         \/ name # << >> /\ fnmatch(Tail(name), pat)
    ELSE /\ name # << >>
         /\ Head(pat) = "?" \/ Head(pat) = Head(name)
         /\ fnmatch(Tail(name), Tail(pat))

(* The for loop of isinblacklist over the split list: the position of the  *)
(* first pattern that matches, 0 if the loop runs to its end.              *)
RECURSIVE black_ip(_, _, _)
black_ip(ip, patterns, k) ==
    IF k > Len(patterns)
    THEN 0
    ELSE IF fnmatch(ip, patterns[k]) THEN k ELSE black_ip(ip, patterns, k + 1)

(* isinblacklist looking at the first pattern only *)
isinblacklist_first_only(ip, bl) == fnmatch(ip, split(bl, ",")[1])

(* isinblacklist *)
isinblacklist(ip, bl) == black_ip(ip, split(bl, ","), 1) # 0

(* The body of the for loop of getips after myip() returned external_ip:   *)
(* continue (next try) or return.                                          *)
getips_body(external_ip, bl) ==
    IF ~isipaddr(external_ip)
    THEN "continue"
    ELSE IF isinblacklist(external_ip, bl) THEN "continue" ELSE "return"

(* str.strip(): leading and trailing whitespace removed. *)
Whitespace == {" ", "\n", "\t"}
RECURSIVE lstrip(_)
lstrip(s) ==
    IF s # << >> /\ Head(s) \in Whitespace THEN lstrip(Tail(s)) ELSE s
RECURSIVE rstrip(_)
rstrip(s) ==
    IF s # << >> /\ s[Len(s)] \in Whitespace
    THEN rstrip(SubSeq(s, 1, Len(s) - 1))
    ELSE s
strip(s) == lstrip(rstrip(s))

(* Iterating a text file: its lines; an empty piece after the last newline *)
(* is no line.  (strip() removes the newline each line keeps.)             *)
file_lines(text) ==
    LET pieces == split(text, "\n") IN
        IF pieces[Len(pieces)] = << >>
        THEN SubSeq(pieces, 1, Len(pieces) - 1)
        ELSE pieces

(* saved_ip.txt *)
NoSaved == [exists |-> FALSE, text |-> << >>]
(* updateoldips writing the local address on the first line *)
updateoldips_local_first(new_external_ip, new_local_ip) ==
    [exists |-> TRUE, text |-> new_local_ip \o <<"\n">> \o new_external_ip]

(* updateoldips: what the file holds afterwards *)
updateoldips(new_external_ip, new_local_ip) ==
    [exists |-> TRUE, text |-> new_external_ip \o <<"\n">> \o new_local_ip]

(* getoldips: (None, None) without a file; else the two stripped lines,    *)
(* ValueError when the file does not hold two lines (unpacking),           *)
(* AssertionError when a line is no address.                               *)
NoOld == [none |-> TRUE, ext |-> << >>, loc |-> << >>]
getoldips(f) ==
    IF ~f.exists
    THEN [exc |-> "none", old |-> NoOld]
    ELSE LET lines == file_lines(f.text) IN
        IF Len(lines) # 2
        THEN [exc |-> "ValueError", old |-> NoOld]
        ELSE IF ~(isipaddr(strip(lines[1])) /\ isipaddr(strip(lines[2])))
        THEN [exc |-> "AssertionError", old |-> NoOld]
        ELSE [exc |-> "none",
              old |-> [none |-> FALSE, ext |-> strip(lines[1]),
                       loc |-> strip(lines[2])]]

(* IPgetter.fetch: what the server's answer gives.  An answer is a timeout *)
(* or a connection error (opener.open raises), or a body; match is the     *)
(* first substring of the decoded body that the octet pattern matches,     *)
(* << >> when there is none (m is None, m.group raises).  Every exception  *)
(* is caught and gives "".                                                 *)
Responses ==
    {[kind |-> "timeout", match |-> << >>],
     [kind |-> "URLError", match |-> << >>],
     [kind |-> "body", match |-> << >>],
     [kind |-> "body", match |-> IP_PUB],
     [kind |-> "body", match |-> IP_PRIV],
     [kind |-> "latin1", match |-> << >>],
     [kind |-> "latin1", match |-> IP_PUB]}
NoAnswer == [kind |-> "none", match |-> << >>]

(* fetch, lines 199-216: a body that is not UTF-8 ("latin1") is decoded   *)
(* as ISO-8859-1, which decodes every byte string, and searched like any   *)
(* other body.                                                             *)
fetch(resp) ==
    IF resp.kind \notin {"body", "latin1"}
    THEN << >>
    ELSE IF resp.match = << >> THEN << >> ELSE resp.match

(* random.choice(self.server_list): seq[randbelow(len(seq))].  A           *)
(* ServerList defines __iter__ and __len__ and no __getitem__, so          *)
(* subscripting it raises TypeError; a list gives one of its elements.     *)
choice(g) ==
    IF g.kind = "ServerList"
    THEN {[exc |-> "TypeError: not subscriptable", server |-> "none"]}
    ELSE IF Len(g.list) = 0
    THEN {[exc |-> "IndexError", server |-> "none"]}
    ELSE {[exc |-> "none", server |-> g.list[k]] : k \in 1..Len(g.list)}

(* get_externalip, lines 150-155, giving up after the first attempt *)
after_fetch_give_up(myip, done) == "ext_return"

(* get_externalip, lines 150-155, without the break *)
after_fetch_no_break(myip, done) ==
    IF done < FetchRange THEN "ext_choice" ELSE "ext_return"

(* get_externalip, lines 150-155: leave the loop at the first non-empty    *)
(* result, or after range(7) is exhausted.                                 *)
after_fetch(myip, done) ==
    IF myip # << >>
    THEN "ext_return"
    ELSE IF done < FetchRange THEN "ext_choice" ELSE "ext_return"

NoSeen == [c |-> Absent, ts |-> 0]
NoGetter == [kind |-> "none", list |-> << >>]
NoSucc == [idx |-> 0, ip |-> << >>, server |-> "none"]
NoArgs == [force |-> FALSE, dry_run |-> FALSE, repeat |-> 0]
(* No concurrent constructors run. *)
NoProcs == << >>
NoOut ==
    [done |-> FALSE, isipaddr |-> FALSE, isinblacklist |-> FALSE,
     black_ip |-> 0, body |-> "none"]

(* read_config.  A config file is absent or holds options, as              *)
(* ConfigParser.read_string keeps them under [DEFAULT]: each of the five   *)
(* options is set to a string or not set.                                  *)
Unset == [set |-> FALSE, v |-> << >>]
Option(v) == [set |-> TRUE, v |-> v]
NoConfigFile ==
    [exists |-> FALSE, receiver_email |-> Unset, machine |-> Unset,
     try_count |-> Unset, ip_blacklist |-> Unset, dry_run |-> Unset]
NoConfig == [status |-> "none", exc |-> "none", value |-> << >>]

(* DEFAULT_TRY = 10 *)
DEFAULT_TRY == 10

(* int(s) for the option strings of the model: an optional sign and        *)
(* decimal digits give the number, anything else is a ValueError.          *)
DigitValue ==
    [c \in Digits |->
        CASE c = "0" -> 0 [] c = "1" -> 1 [] c = "2" -> 2 [] c = "3" -> 3
          [] c = "4" -> 4 [] c = "5" -> 5 [] c = "6" -> 6 [] c = "7" -> 7
          [] c = "8" -> 8 [] c = "9" -> 9]
RECURSIVE decimal(_)
decimal(s) ==
    IF s = << >>
    THEN 0
    ELSE 10 * decimal(SubSeq(s, 1, Len(s) - 1)) + DigitValue[s[Len(s)]]
int(s) ==
    LET digits == IF s # << >> /\ Head(s) = "-" THEN Tail(s) ELSE s IN
    IF digits = << >> \/ \E k \in 1..Len(digits) : digits[k] \notin Digits
    THEN [exc |-> "ValueError", n |-> 0]
    ELSE [exc |-> "none",
          n |-> IF Head(s) = "-" THEN 0 - decimal(digits) ELSE decimal(digits)]

(* str.lower() on the letters that occur in the option strings *)
lower(s) ==
    [k \in 1..Len(s) |->
        CASE s[k] = "T" -> "t" [] s[k] = "R" -> "r" [] s[k] = "U" -> "u"
          [] s[k] = "E" -> "e" [] OTHER -> s[k]]

(* ConfigParser.BOOLEAN_STATES *)
BOOLEAN_TRUE ==
    {<<"1">>, <<"y", "e", "s">>, <<"t", "r", "u", "e">>, <<"o", "n">>}
BOOLEAN_FALSE ==
    {<<"0">>, <<"n", "o">>, <<"f", "a", "l", "s", "e">>, <<"o", "f", "f">>}

(* SectionProxy.get that ignores its fallback *)
get_no_fallback(o, fallback) == o

(* SectionProxy.get(option), .get(option, fallback): the string set, else  *)
(* the fallback, None without one.                                         *)
get(o, fallback) == IF o.set THEN o ELSE fallback

(* SectionProxy.getint(option, fallback): int() of the string set, else    *)
(* the fallback.                                                           *)
getint(o, fallback) ==
    IF o.set THEN int(o.v) ELSE [exc |-> "none", n |-> fallback]

(* SectionProxy.getboolean(option): the string set, lowered, looked up in  *)
(* BOOLEAN_STATES (ValueError when it is not there), None when not set.    *)
getboolean(o) ==
    IF ~o.set THEN [exc |-> "none", b |-> "None"]
    ELSE IF lower(o.v) \in BOOLEAN_TRUE THEN [exc |-> "none", b |-> "True"]
    ELSE IF lower(o.v) \in BOOLEAN_FALSE THEN [exc |-> "none", b |-> "False"]
    ELSE [exc |-> "ValueError", b |-> "None"]

(* bool(x) of what getboolean returns *)
truthy(b) == b = "True"

(* read_config(fname): open() raises FileNotFoundError for a file that is  *)
(* not there; the dict is built in the order of lines 57-62, so a bad      *)
(* try_count raises before dry_run is looked at.                           *)
read_config_body(f) ==
    IF ~f.exists
    THEN [status |-> "raised", exc |-> "FileNotFoundError", value |-> << >>]
    ELSE IF getint(f.try_count, DEFAULT_TRY).exc # "none"
    THEN [status |-> "raised", exc |-> "ValueError", value |-> << >>]
    ELSE IF getboolean(f.dry_run).exc # "none"
    THEN [status |-> "raised", exc |-> "ValueError", value |-> << >>]
    ELSE [status |-> "returned", exc |-> "none",
          value |-> [receiver_email |-> get(f.receiver_email, Unset),
                     machine |-> get(f.machine, Unset),
                     try_count |-> getint(f.try_count, DEFAULT_TRY).n,
                     ip_blacklist |->
                        get(f.ip_blacklist, Option(DEFAULT_BLACKLIST)).v,
                     dry_run |-> getboolean(f.dry_run).b]]

ApiLists == {<<"s1">>, <<"s1", "s2">>}
LocalIps == {IP_LAN}
Repeats == {-1, 1}
InitSaved == {NoSaved, updateoldips(IP_PUB, LOOPBACK)}

----------------------------------------------------------------------------
(* The state before any operation: the cache file, the bundled resource    *)
(* and the saved-IP file are what earlier runs and the installation left.  *)
Init ==
    /\ now = StartNow
    /\ ticks = 0
    /\ cacheFile \in InitCaches
    /\ bundled \in {"ok", "missing"}
    /\ downloads = 0
    /\ savedFile \in InitSaved
    /\ mails = 0
    /\ pc = "idle"
    /\ op = "none"
    /\ result = NoResult
    /\ file = NoFile
    /\ server_list = << >>
    /\ slSource = "none"
    /\ slCache = "none"
    /\ slSeen = NoSeen
    /\ slRefreshed = FALSE
    /\ ipgetter = NoGetter
    /\ local_ip = << >>
    /\ i = 0
    /\ server = "none"
    /\ myipv = << >>
    /\ nFetch = 0
    /\ firstSucc = NoSucc
    /\ answer = NoAnswer
    /\ try_count = 0
    /\ blacklist = << >>
    /\ counter = 0
    /\ fetchTotal = 0
    /\ fetchSucc = 0
    /\ args = NoArgs
    /\ old = NoOld
    /\ acquired = FALSE
    /\ cycleNotify = 0
    /\ fCand = << >>
    /\ fBl = << >>
    /\ fOut = NoOut
    /\ prevList = << >>
    /\ cycles = 0
    /\ rpc = NoProcs
    /\ rsl = NoProcs
    /\ flen = 0
    /\ cfgFile = NoConfigFile
    /\ config = NoConfig

ResetSL ==
    /\ server_list' = << >>
    /\ slSource' = "none"
    /\ slCache' = "none"
    /\ slSeen' = NoSeen
    /\ slRefreshed' = FALSE
ResetIP ==
    /\ local_ip' = << >>
    /\ i' = 0
    /\ server' = "none"
    /\ myipv' = << >>
    /\ nFetch' = 0
    /\ firstSucc' = NoSucc
    /\ answer' = NoAnswer
ResetGI ==
    /\ try_count' = 0
    /\ blacklist' = << >>
    /\ counter' = 0
    /\ fetchTotal' = 0
    /\ fetchSucc' = 0
ResetMain ==
    /\ args' = NoArgs
    /\ old' = NoOld
    /\ acquired' = FALSE
    /\ cycleNotify' = 0

(* An exception nobody catches ends the operation: neither main, nor       *)
(* getips, nor myip, nor the constructors hold a handler for it.           *)
Raise(e) ==
    /\ pc' = "idle"
    /\ result' = Raised(e)

(* ServerList.__init__ returned: to the caller, or to IPgetter.__init__    *)
(* (line 142) and from there to get_ips (line 171).                        *)
Constructed ==
    IF op = "ServerList"
    THEN /\ pc' = "idle"
         /\ result' = Ok
    ELSE /\ pc' = "local_ip"
         /\ UNCHANGED result

(* The clock advances between operations. *)
Tick ==
    /\ pc = "idle"
    /\ op = "none"
    /\ ticks < MaxTicks
    /\ \E d \in {1, CacheDays - 1, CacheDays} : now' = now + d
    /\ ticks' = ticks + 1
    /\ UNCHANGED <<cacheFile, bundled, downloads, pc, op, result>>
    /\ UNCHANGED <<diskVars, slVars, ipVars, giVars, mainVars, filterVars>>
    /\ prevList' = << >>
    /\ UNCHANGED <<cycles, raceVars, cfgVars>>

(* A caller constructs ServerList(file). *)
NewServerList ==
    /\ pc = "idle"
    /\ op = "none"
    /\ \E f \in Files : file' = f
    /\ op' = "ServerList"
    /\ pc' = "sl_from_cache"
    /\ result' = NoResult
    /\ ResetSL
    /\ ipgetter' = NoGetter
    /\ ResetIP
    /\ ResetGI
    /\ ResetMain
    /\ UNCHANGED <<cacheFile, downloads, envVars, diskVars, filterVars>>
    /\ UNCHANGED <<histVars, raceVars, cfgVars>>

(* __init__, line 59: self.server_list = self.from_cache() *)
init_from_cache ==
    /\ pc = "sl_from_cache"
    /\ LET r == from_cache(cacheFile, now) IN
        /\ slCache' = r.out
        /\ slSeen' = [c |-> cacheFile, ts |-> now]
        /\ IF r.out = "ok"
           THEN /\ server_list' = r.servers
                /\ slSource' = "cache"
                /\ Constructed
           ELSE IF r.out = "CacheExpired"
           THEN /\ pc' = "sl_refresh"
                /\ UNCHANGED <<server_list, slSource, result>>
           ELSE /\ Raise(r.out)
                /\ UNCHANGED <<server_list, slSource>>
    /\ UNCHANGED <<cacheFile, downloads, op, file, slRefreshed>>
    /\ UNCHANGED <<envVars, diskVars, ipVars, giVars, mainVars, filterVars>>
    /\ UNCHANGED <<histVars, raceVars, cfgVars>>

(* __init__, lines 60-64, with the download as the refresh source *)
init_refresh_download ==
    /\ pc = "sl_refresh"
    /\ slRefreshed' = TRUE
    /\ downloads' = downloads + 1
    /\ server_list' = BundledServers
    /\ slSource' = "download"
    /\ pc' = "sl_to_cache"
    /\ UNCHANGED <<cacheFile, op, result, file, slCache, slSeen>>
    /\ UNCHANGED <<envVars, diskVars, ipVars, giVars, mainVars, filterVars>>
    /\ UNCHANGED <<histVars, raceVars, cfgVars>>

(* __init__, lines 60-64, with the bundled list as the fallback of an      *)
(* override file that cannot be loaded                                     *)
init_refresh_fallback ==
    /\ pc = "sl_refresh"
    /\ slRefreshed' = TRUE
    /\ LET r == builtin(bundled) IN
        IF r.out = "ok"
        THEN /\ server_list' = r.servers
             /\ slSource' = "builtin"
             /\ pc' = "sl_to_cache"
             /\ UNCHANGED result
        ELSE /\ Raise(r.out)
             /\ UNCHANGED <<server_list, slSource>>
    /\ UNCHANGED <<cacheFile, downloads, op, file, slCache, slSeen>>
    /\ UNCHANGED <<envVars, diskVars, ipVars, giVars, mainVars, filterVars>>
    /\ UNCHANGED <<histVars, raceVars, cfgVars>>

(* __init__, lines 60-64: except CacheExpired: from_file(file) if a file   *)
(* was given, builtin() otherwise.                                         *)
init_refresh ==
    /\ pc = "sl_refresh"
    /\ slRefreshed' = TRUE
    /\ LET r == IF file # NoFile THEN from_file(file) ELSE builtin(bundled)
       IN
        IF r.out = "ok"
        THEN /\ server_list' = r.servers
             /\ slSource' = IF file # NoFile THEN "file" ELSE "builtin"
             /\ pc' = "sl_to_cache"
             /\ UNCHANGED result
        ELSE /\ Raise(r.out)
             /\ UNCHANGED <<server_list, slSource>>
    /\ UNCHANGED <<cacheFile, downloads, op, file, slCache, slSeen>>
    /\ UNCHANGED <<envVars, diskVars, ipVars, giVars, mainVars, filterVars>>
    /\ UNCHANGED <<histVars, raceVars, cfgVars>>

(* to_cache, line 100: open(servercache_file, "w") truncates the file, or  *)
(* fails (no cache directory, no permission) and leaves it as it was.      *)
to_cache_open ==
    /\ pc = "sl_to_cache"
    /\ \/ /\ cacheFile' = Unparsable
          /\ pc' = "sl_to_cache_write"
          /\ UNCHANGED result
       \/ /\ Raise("OSError")
          /\ UNCHANGED cacheFile
    /\ UNCHANGED <<downloads, op>>
    /\ UNCHANGED <<envVars, diskVars, slVars, ipVars, giVars, mainVars,
                   filterVars>>
    /\ UNCHANGED <<histVars, raceVars, cfgVars>>

(* to_cache, line 101: outfile.write(json.dumps(cache_content)), the last  *)
(* statement of __init__.                                                  *)
to_cache_write ==
    /\ pc = "sl_to_cache_write"
    /\ cacheFile' = cache_content(now, server_list)
    /\ Constructed
    /\ UNCHANGED <<downloads, op>>
    /\ UNCHANGED <<envVars, diskVars, slVars, ipVars, giVars, mainVars,
                   filterVars>>
    /\ UNCHANGED <<histVars, raceVars, cfgVars>>

(* The process is killed between the truncation and the write. *)
Kill ==
    /\ pc = "sl_to_cache_write"
    /\ pc' = "idle"
    /\ result' = [status |-> "killed", exc |-> "none"]
    /\ UNCHANGED <<cacheFile, downloads, op>>
    /\ UNCHANGED <<envVars, diskVars, slVars, ipVars, giVars, mainVars,
                   filterVars>>
    /\ UNCHANGED <<histVars, raceVars, cfgVars>>

(* ServerList.download(url), called by a caller on a constructed list. *)
download ==
    /\ pc = "idle"
    /\ op = "ServerList"
    /\ result = Ok
    /\ downloads < MaxDownloads
    /\ downloads' = downloads + 1
    /\ op' = "download"
    /\ \/ result' = Ok
       \/ result' = Raised("URLError")
    /\ UNCHANGED <<cacheFile, pc>>
    /\ UNCHANGED <<envVars, diskVars, slVars, ipVars, giVars, mainVars,
                   filterVars>>
    /\ UNCHANGED <<histVars, raceVars, cfgVars>>

----------------------------------------------------------------------------
(* A caller runs IPgetter(server_list).get_ips() with a non-empty list of  *)
(* its own (an empty list or None makes IPgetter build a ServerList).      *)
call_get_ips ==
    /\ pc = "idle"
    /\ op = "none"
    /\ \E l \in ApiLists : ipgetter' = [kind |-> "list", list |-> l]
    /\ op' = "get_ips"
    /\ pc' = "local_ip"
    /\ result' = NoResult
    /\ file' = NoFile
    /\ ResetSL
    /\ ResetIP
    /\ ResetGI
    /\ ResetMain
    /\ UNCHANGED <<cacheFile, downloads, envVars, diskVars, filterVars>>
    /\ prevList' = << >>
    /\ UNCHANGED <<cycles, raceVars, cfgVars>>

(* A caller runs myip(): IPgetter().get_ips(), lines 48-49 and 142. *)
myip ==
    /\ pc = "idle"
    /\ op = "none"
    /\ ipgetter' = [kind |-> "ServerList", list |-> << >>]
    /\ op' = "myip"
    /\ pc' = "sl_from_cache"
    /\ result' = NoResult
    /\ file' = NoFile
    /\ ResetSL
    /\ ResetIP
    /\ ResetGI
    /\ ResetMain
    /\ UNCHANGED <<cacheFile, downloads, envVars, diskVars, filterVars>>
    /\ prevList' = << >>
    /\ UNCHANGED <<cycles, raceVars, cfgVars>>

(* get_local_ip: socket.socket() stands before the try, so its failure     *)
(* propagates; a failure of connect or getsockname gives "127.0.0.1".      *)
get_local_ip ==
    /\ pc = "local_ip"
    /\ \/ /\ Raise("OSError: socket")
          /\ UNCHANGED local_ip
       \/ /\ local_ip' = LOOPBACK
          /\ pc' = "ext_choice"
          /\ UNCHANGED result
       \/ /\ local_ip' \in LocalIps
          /\ pc' = "ext_choice"
          /\ UNCHANGED result
    /\ UNCHANGED <<ipgetter, i, server, myipv, nFetch, firstSucc, answer>>
    /\ UNCHANGED <<cacheFile, downloads, op, envVars, diskVars, slVars,
                   giVars, mainVars, filterVars>>
    /\ UNCHANGED <<histVars, raceVars, cfgVars>>

(* get_externalip, line 151: server = random.choice(self.server_list) *)
get_externalip_choice ==
    /\ pc = "ext_choice"
    /\ \E c \in choice(ipgetter) :
        IF c.exc # "none"
        THEN /\ Raise(c.exc)
             /\ UNCHANGED server
        ELSE /\ server' = c.server
             /\ pc' = "ext_fetch"
             /\ UNCHANGED result
    /\ UNCHANGED <<ipgetter, local_ip, i, myipv, nFetch, firstSucc, answer>>
    /\ UNCHANGED <<cacheFile, downloads, op, envVars, diskVars, slVars,
                   giVars, mainVars, filterVars>>
    /\ UNCHANGED <<histVars, raceVars, cfgVars>>

(* get_externalip, lines 152-154: myip = self.fetch(server), and the break *)
get_externalip_fetch ==
    /\ pc = "ext_fetch"
    /\ \E resp \in Responses :
        LET r == fetch(resp) IN
            /\ answer' = resp
            /\ myipv' = r
            /\ firstSucc' =
                IF firstSucc.idx = 0 /\ r # << >>
                THEN [idx |-> nFetch + 1, ip |-> r, server |-> server]
                ELSE firstSucc
            /\ fetchSucc' = IF r # << >> THEN fetchSucc + 1 ELSE fetchSucc
            /\ pc' = after_fetch(r, i + 1)
    /\ i' = i + 1
    /\ nFetch' = nFetch + 1
    /\ fetchTotal' = fetchTotal + 1
    /\ UNCHANGED <<ipgetter, local_ip, server>>
    /\ UNCHANGED <<try_count, blacklist, counter>>
    /\ UNCHANGED <<cacheFile, downloads, op, result, envVars, diskVars,
                   slVars, mainVars, filterVars>>
    /\ UNCHANGED <<histVars, raceVars, cfgVars>>

(* main, lines 235-237: the condition of the if.  Without a saved-IP file  *)
(* the old addresses are None, which differs from every str.               *)
notify_external_only(o, curr_external_ip, curr_local_ip, force) ==
    \/ o.none
    \/ curr_external_ip # o.ext
    \/ force

notify_needed(o, curr_external_ip, curr_local_ip, force) ==
    \/ o.none
    \/ curr_external_ip # o.ext
    \/ curr_local_ip # o.loc
    \/ force

(* sendmail, lines 160-165: the number of /usr/bin/mail runs after the     *)
(* call when it was m before; with dry_run the command is not run.         *)
sendmail_always(m, dry_run) == m + 1

sendmail(m, dry_run) == IF dry_run THEN m ELSE m + 1

(* main, lines 257-260: break, or sleep and go round again *)
main_break_always(repeat) == TRUE

main_break(repeat) == repeat <= 0

(* main calling updateoldips although the mail command failed *)
main_update_despite_failure(curr_external_ip, curr_local_ip) ==
    LET leave == IF main_break(args.repeat)
                 THEN pc' = "idle" /\ result' = Ok
                 ELSE pc' = "sleep" /\ UNCHANGED result
    IN
    IF notify_needed(old, curr_external_ip, curr_local_ip, args.force)
    THEN /\ cycleNotify' = cycleNotify + 1
         /\ savedFile' = updateoldips(curr_external_ip, curr_local_ip)
         /\ \/ /\ mails' = sendmail(mails, args.dry_run)
               /\ leave
            \/ /\ ~args.dry_run
               /\ Raise("CalledProcessError")
               /\ UNCHANGED mails
    ELSE /\ UNCHANGED <<cycleNotify, mails, savedFile>>
         /\ leave

(* main, lines 234-260, once getips returned: compare, sendmail (the mail  *)
(* command may fail, which raises), updateoldips, then leave or sleep and  *)
(* start the next cycle.                                                   *)
main_after_getips(curr_external_ip, curr_local_ip) ==
    LET leave == IF main_break(args.repeat)
                 THEN pc' = "idle" /\ result' = Ok
                 ELSE pc' = "sleep" /\ UNCHANGED result
    IN
    IF notify_needed(old, curr_external_ip, curr_local_ip, args.force)
    THEN /\ cycleNotify' = cycleNotify + 1
         /\ \/ /\ mails' = sendmail(mails, args.dry_run)
               /\ savedFile' = updateoldips(curr_external_ip, curr_local_ip)
               /\ leave
            \/ /\ ~args.dry_run
               /\ Raise("CalledProcessError")
               /\ UNCHANGED <<mails, savedFile>>
    ELSE /\ UNCHANGED <<cycleNotify, mails, savedFile>>
         /\ leave

(* get_ips returns (line 173): to the caller of get_ips or myip, or into   *)
(* the loop body of getips (lines 90-101).                                 *)
get_ips_return ==
    /\ pc = "ext_return"
    /\ IF op # "main"
       THEN /\ pc' = "idle"
            /\ result' = Ok
            /\ UNCHANGED <<counter, acquired, cycleNotify, diskVars>>
       ELSE IF getips_body(myipv, blacklist) = "return"
       THEN /\ acquired' = TRUE
            /\ main_after_getips(myipv, local_ip)
            /\ UNCHANGED counter
       ELSE /\ counter' = counter + 1
            /\ pc' = "getips_loop"
            /\ UNCHANGED <<result, acquired, cycleNotify, diskVars>>
    /\ UNCHANGED <<try_count, blacklist, fetchTotal, fetchSucc, args, old>>
    /\ UNCHANGED <<cacheFile, downloads, op, envVars, slVars, ipVars,
                   filterVars>>
    /\ UNCHANGED <<histVars, raceVars, cfgVars>>

(* getips, line 103, returning an empty result instead of raising *)
getips_returns_empty ==
    /\ acquired' = TRUE
    /\ main_after_getips(<< >>, << >>)

(* getips, line 103: raise ValueError("Could not get IPs") *)
getips_exhausted ==
    /\ Raise("ValueError: Could not get IPs")
    /\ UNCHANGED <<acquired, cycleNotify, diskVars>>

(* getips, lines 87-90: the next try calls myip(), which builds a new      *)
(* IPgetter and with it a new ServerList; after try_count tries, line 103. *)
getips_for ==
    /\ pc = "getips_loop"
    /\ IF counter < try_count
       THEN /\ pc' = "sl_from_cache"
            /\ ipgetter' = [kind |-> "ServerList", list |-> << >>]
            /\ ResetSL
            /\ ResetIP
            /\ UNCHANGED <<result, acquired, cycleNotify, diskVars>>
       ELSE /\ getips_exhausted
            /\ UNCHANGED <<slVars, ipVars>>
    /\ UNCHANGED file
    /\ UNCHANGED <<giVars, args, old>>
    /\ UNCHANGED <<cacheFile, downloads, op, envVars, filterVars>>
    /\ UNCHANGED <<histVars, raceVars, cfgVars>>

(* The program is started: main() with its arguments parsed. *)
main ==
    /\ pc = "idle"
    /\ op = "none"
    /\ op' = "main"
    /\ pc' = "getoldips"
    /\ result' = NoResult
    /\ \E f \in BOOLEAN, d \in BOOLEAN, r \in Repeats :
        args' = [force |-> f, dry_run |-> d, repeat |-> r]
    /\ try_count' \in 0..MaxTry
    /\ blacklist' = DEFAULT_BLACKLIST
    /\ counter' = 0
    /\ fetchTotal' = 0
    /\ fetchSucc' = 0
    /\ old' = NoOld
    /\ acquired' = FALSE
    /\ cycleNotify' = 0
    /\ file' = NoFile
    /\ ResetSL
    /\ ipgetter' = NoGetter
    /\ ResetIP
    /\ UNCHANGED <<cacheFile, downloads, envVars, diskVars, filterVars>>
    /\ prevList' = << >>
    /\ cycles' = 0
    /\ UNCHANGED <<raceVars, cfgVars>>

(* main, lines 229-230: a cycle starts with getoldips, then calls getips *)
main_getoldips ==
    /\ pc = "getoldips"
    /\ cycles < MaxCycles
    /\ LET r == getoldips(savedFile) IN
        IF r.exc # "none"
        THEN /\ Raise(r.exc)
             /\ UNCHANGED old
        ELSE /\ old' = r.old
             /\ pc' = "getips_loop"
             /\ UNCHANGED result
    /\ counter' = 0
    /\ fetchTotal' = 0
    /\ fetchSucc' = 0
    /\ acquired' = FALSE
    /\ cycleNotify' = 0
    /\ UNCHANGED <<try_count, blacklist, args>>
    /\ UNCHANGED <<cacheFile, downloads, op, envVars, diskVars, slVars,
                   ipVars, filterVars>>
    /\ cycles' = cycles + 1
    /\ UNCHANGED <<prevList, raceVars, cfgVars>>

(* The caller is done with the outcome of an operation: the objects and   *)
(* locals of the call go out of scope.                                     *)
forget ==
    /\ pc = "idle"
    /\ op # "none"
    /\ op' = "none"
    /\ UNCHANGED pc
    /\ result' = NoResult
    /\ file' = NoFile
    /\ ResetSL
    /\ ipgetter' = NoGetter
    /\ ResetIP
    /\ ResetGI
    /\ ResetMain
    /\ UNCHANGED <<cacheFile, downloads, envVars, diskVars, filterVars>>
    /\ prevList' = IF op = "ServerList" /\ result = Ok
                   THEN server_list
                   ELSE << >>
    /\ cycles' = 0
    /\ UNCHANGED <<raceVars, cfgVars>>

Next ==
    \/ Tick
    \/ forget
    \/ NewServerList
    \/ init_from_cache
    \/ init_refresh
    \/ to_cache_open
    \/ to_cache_write
    \/ Kill
    \/ download
    \/ call_get_ips
    \/ myip
    \/ get_local_ip
    \/ get_externalip_choice
    \/ get_externalip_fetch
    \/ get_ips_return
    \/ main
    \/ main_getoldips
    \/ getips_for

Spec == Init /\ [][Next]_vars

----------------------------------------------------------------------------
(* The validators applied to a candidate string and a blacklist string;    *)
(* black_ip is the pattern the warning of isinblacklist names.             *)
InitValidate ==
    /\ now = StartNow
    /\ ticks = 0
    /\ cacheFile = Absent
    /\ bundled = "ok"
    /\ downloads = 0
    /\ savedFile = NoSaved
    /\ mails = 0
    /\ pc = "validate"
    /\ op = "none"
    /\ result = NoResult
    /\ file = NoFile
    /\ server_list = << >>
    /\ slSource = "none"
    /\ slCache = "none"
    /\ slSeen = NoSeen
    /\ slRefreshed = FALSE
    /\ ipgetter = NoGetter
    /\ local_ip = << >>
    /\ i = 0
    /\ server = "none"
    /\ myipv = << >>
    /\ nFetch = 0
    /\ firstSucc = NoSucc
    /\ answer = NoAnswer
    /\ try_count = 0
    /\ blacklist = << >>
    /\ counter = 0
    /\ fetchTotal = 0
    /\ fetchSucc = 0
    /\ args = NoArgs
    /\ old = NoOld
    /\ acquired = FALSE
    /\ cycleNotify = 0
    /\ fCand \in Candidates
    /\ fBl \in Blacklists
    /\ fOut = NoOut
    /\ prevList = << >>
    /\ cycles = 0
    /\ rpc = NoProcs
    /\ rsl = NoProcs
    /\ flen = 0
    /\ cfgFile = NoConfigFile
    /\ config = NoConfig

validate ==
    /\ pc = "validate"
    /\ ~fOut.done
    /\ fOut' = [done |-> TRUE,
                isipaddr |-> isipaddr(fCand),
                isinblacklist |-> isinblacklist(fCand, fBl),
                black_ip |-> black_ip(fCand, split(fBl, ","), 1),
                body |-> getips_body(fCand, fBl)]
    /\ UNCHANGED <<fCand, fBl, cacheFile, downloads, pc, op, result>>
    /\ UNCHANGED <<envVars, diskVars, slVars, ipVars, giVars, mainVars>>
    /\ UNCHANGED <<histVars, raceVars, cfgVars>>

NextValidate == validate

SpecValidate == InitValidate /\ [][NextValidate]_vars

----------------------------------------------------------------------------
(* read_config applied to a config file. *)
S_EMAIL == <<"a", "@", "b">>
S_MACHINE == <<"n", "a", "s">>
S_FIVE == <<"5">>
S_TEN_COMMENT == <<"1", "0", " ", "#">>
S_true == <<"t", "r", "u", "e">>
S_TRUE == <<"T", "R", "U", "E">>
S_no == <<"n", "o">>
S_maybe == <<"m", "a", "y", "b", "e">>

ConfigFiles ==
    {NoConfigFile} \cup
    [exists : {TRUE},
     receiver_email : {Unset, Option(S_EMAIL)},
     machine : {Unset, Option(S_MACHINE)},
     try_count : {Unset, Option(S_FIVE), Option(S_TEN_COMMENT)},
     ip_blacklist : {Unset, Option(<< >>), Option(BL_ONE)},
     dry_run : {Unset, Option(S_true), Option(S_TRUE), Option(S_no),
                Option(S_maybe)}]

InitConfig ==
    /\ now = StartNow
    /\ ticks = 0
    /\ cacheFile = Absent
    /\ bundled = "ok"
    /\ downloads = 0
    /\ savedFile = NoSaved
    /\ mails = 0
    /\ pc = "read_config"
    /\ op = "none"
    /\ result = NoResult
    /\ file = NoFile
    /\ server_list = << >>
    /\ slSource = "none"
    /\ slCache = "none"
    /\ slSeen = NoSeen
    /\ slRefreshed = FALSE
    /\ ipgetter = NoGetter
    /\ local_ip = << >>
    /\ i = 0
    /\ server = "none"
    /\ myipv = << >>
    /\ nFetch = 0
    /\ firstSucc = NoSucc
    /\ answer = NoAnswer
    /\ try_count = 0
    /\ blacklist = << >>
    /\ counter = 0
    /\ fetchTotal = 0
    /\ fetchSucc = 0
    /\ args = NoArgs
    /\ old = NoOld
    /\ acquired = FALSE
    /\ cycleNotify = 0
    /\ fCand = << >>
    /\ fBl = << >>
    /\ fOut = NoOut
    /\ prevList = << >>
    /\ cycles = 0
    /\ rpc = NoProcs
    /\ rsl = NoProcs
    /\ flen = 0
    /\ cfgFile \in ConfigFiles
    /\ config = NoConfig

read_config ==
    /\ pc = "read_config"
    /\ config = NoConfig
    /\ config' = read_config_body(cfgFile)
    /\ UNCHANGED <<cfgFile, cacheFile, downloads, pc, op, result>>
    /\ UNCHANGED <<envVars, diskVars, slVars, ipVars, giVars, mainVars>>
    /\ UNCHANGED <<filterVars, histVars, raceVars>>

NextConfig == read_config

SpecConfig == InitConfig /\ [][NextConfig]_vars

----------------------------------------------------------------------------
(* Two processes construct ServerList() concurrently over one cache file.  *)
(* The bundled resource is loadable and the cache file can be opened, so   *)
(* that only the interleaving of the processes decides the outcome.        *)
Procs == {1, 2}

(* len(json.dumps(cache_content)): repr of the float timestamp drops       *)
(* trailing zeros of the microseconds, so two serialisations of the same   *)
(* list differ in length.                                                  *)
Lengths == {1, 2}

NoWrite == [kind |-> "nothing"]
ProcStart ==
    [cache |-> "none", list |-> << >>, result |-> NoResult, wrote |-> NoWrite]

InitRace ==
    /\ now = StartNow
    /\ ticks = 0
    /\ cacheFile \in InitCaches
    /\ bundled = "ok"
    /\ downloads = 0
    /\ savedFile = NoSaved
    /\ mails = 0
    /\ pc = "idle"
    /\ op = "none"
    /\ result = NoResult
    /\ file = NoFile
    /\ server_list = << >>
    /\ slSource = "none"
    /\ slCache = "none"
    /\ slSeen = NoSeen
    /\ slRefreshed = FALSE
    /\ ipgetter = NoGetter
    /\ local_ip = << >>
    /\ i = 0
    /\ server = "none"
    /\ myipv = << >>
    /\ nFetch = 0
    /\ firstSucc = NoSucc
    /\ answer = NoAnswer
    /\ try_count = 0
    /\ blacklist = << >>
    /\ counter = 0
    /\ fetchTotal = 0
    /\ fetchSucc = 0
    /\ args = NoArgs
    /\ old = NoOld
    /\ acquired = FALSE
    /\ cycleNotify = 0
    /\ fCand = << >>
    /\ fBl = << >>
    /\ fOut = NoOut
    /\ prevList = << >>
    /\ cycles = 0
    /\ rpc = [p \in Procs |-> "from_cache"]
    /\ rsl = [p \in Procs |-> ProcStart]
    /\ flen = IF cacheFile = Absent THEN 0 ELSE 1
    /\ cfgFile = NoConfigFile
    /\ config = NoConfig

RaceFrame ==
    /\ UNCHANGED <<bundled, downloads, pc, op, result, prevList, cycles>>
    /\ UNCHANGED <<diskVars, slVars, ipVars, giVars, mainVars, filterVars>>
    /\ UNCHANGED cfgVars

(* __init__, line 59, in process p: from_cache() *)
race_from_cache(p) ==
    /\ rpc[p] = "from_cache"
    /\ LET r == from_cache(cacheFile, now) IN
        IF r.out = "ok"
        THEN /\ rsl' = [rsl EXCEPT ![p].cache = r.out,
                                   ![p].list = r.servers,
                                   ![p].result = Ok]
             /\ rpc' = [rpc EXCEPT ![p] = "done"]
        ELSE IF r.out = "CacheExpired"
        THEN /\ rsl' = [rsl EXCEPT ![p].cache = r.out]
             /\ rpc' = [rpc EXCEPT ![p] = "refresh"]
        ELSE /\ rsl' = [rsl EXCEPT ![p].cache = r.out,
                                   ![p].result = Raised(r.out)]
             /\ rpc' = [rpc EXCEPT ![p] = "done"]
    /\ UNCHANGED <<now, ticks, cacheFile, flen>>
    /\ RaceFrame

(* __init__, lines 60-64 (no file given), and to_cache, lines 92-97, in    *)
(* process p: the list is the bundled one, cache_content is computed       *)
(* before the file is opened.                                              *)
race_refresh(p) ==
    /\ rpc[p] = "refresh"
    /\ LET r == builtin(bundled) IN
        IF r.out = "ok"
        THEN /\ rsl' = [rsl EXCEPT ![p].list = r.servers,
                                   ![p].wrote = cache_content(now, r.servers)]
             /\ rpc' = [rpc EXCEPT ![p] = "open"]
        ELSE /\ rsl' = [rsl EXCEPT ![p].result = Raised(r.out)]
             /\ rpc' = [rpc EXCEPT ![p] = "done"]
    /\ UNCHANGED <<now, ticks, cacheFile, flen>>
    /\ RaceFrame

(* to_cache, line 100, in process p: open(servercache_file, "w") truncates *)
(* the file to length 0.                                                   *)
race_open(p) ==
    /\ rpc[p] = "open"
    /\ cacheFile' = Unparsable
    /\ flen' = 0
    /\ rpc' = [rpc EXCEPT ![p] = "write"]
    /\ UNCHANGED <<now, ticks, rsl>>
    /\ RaceFrame

(* to_cache, line 101, in process p: the buffered text is written at       *)
(* offset 0 of p's own file descriptor when the with block closes the      *)
(* file.  The file is not truncated again: bytes another process wrote     *)
(* beyond the end of p's text stay, and the file then holds p's JSON       *)
(* document followed by the tail of the other one, which json.load         *)
(* rejects (extra data).                                                   *)
race_write(p) ==
    /\ rpc[p] = "write"
    /\ \E n \in Lengths :
        IF flen <= n
        THEN /\ cacheFile' = rsl[p].wrote
             /\ flen' = n
        ELSE /\ cacheFile' = Unparsable
             /\ UNCHANGED flen
    /\ rsl' = [rsl EXCEPT ![p].result = Ok]
    /\ rpc' = [rpc EXCEPT ![p] = "done"]
    /\ UNCHANGED <<now, ticks>>
    /\ RaceFrame

(* Time passes while the processes run. *)
race_tick ==
    /\ ticks < MaxTicks
    /\ \E p \in Procs : rpc[p] # "done"
    /\ now' = now + 1
    /\ ticks' = ticks + 1
    /\ UNCHANGED <<cacheFile, rpc, rsl, flen>>
    /\ RaceFrame

NextRace ==
    \/ \E p \in Procs : race_from_cache(p)
    \/ \E p \in Procs : race_refresh(p)
    \/ \E p \in Procs : race_open(p)
    \/ \E p \in Procs : race_write(p)
    \/ race_tick

SpecRace == InitRace /\ [][NextRace]_vars

----------------------------------------------------------------------------
(* The driver's cycles.  main reaches its comparison only when a           *)
(* resolution returns.  Through myip() the list is a ServerList and the    *)
(* selection raises (get_externalip_choice), so in Spec no resolution of   *)
(* main returns.  SpecCycle widens Spec: get_externalip may also return    *)
(* to get_ips what lines 149-155 return once random.choice accepts the     *)
(* list: the address resolved, "" when none of the attempts gave one, and  *)
(* the service queried last.  The raising selection stays a step, and all  *)
(* other steps are those of Spec, so every behaviour of the driver in Spec *)
(* is a behaviour of SpecCycle.                                            *)
Resolved == {<< >>, IP_PUB, IP_ALT, IP_PRIV}

get_externalip_returns ==
    /\ pc = "ext_choice"
    /\ ipgetter.kind = "ServerList"
    /\ \E ext \in Resolved, k \in 1..Len(server_list) :
        /\ myipv' = ext
        /\ server' = server_list[k]
    /\ pc' = "ext_return"
    /\ UNCHANGED <<ipgetter, local_ip, i, nFetch, firstSucc, answer>>
    /\ UNCHANGED <<cacheFile, downloads, op, result, envVars, diskVars,
                   slVars, giVars, mainVars, filterVars>>
    /\ UNCHANGED <<histVars, raceVars, cfgVars>>

(* main, line 260: time.sleep(args.repeat) returns and the while loop     *)
(* goes round.  (No cycle of Spec gets as far as the sleep.)               *)
main_sleep ==
    /\ pc = "sleep"
    /\ pc' = "getoldips"
    /\ UNCHANGED <<cacheFile, downloads, op, result, envVars, diskVars,
                   slVars, ipVars, giVars, mainVars, filterVars>>
    /\ UNCHANGED <<histVars, raceVars, cfgVars>>

CycleCaches == {Absent, Obj(Float(StartNow + 1), Other, List(<<"s2">>))}

InitCycle ==
    /\ Init
    /\ cacheFile \in CycleCaches
    /\ bundled = "ok"

NextCycle ==
    \/ main
    \/ main_getoldips
    \/ getips_for
    \/ init_from_cache
    \/ init_refresh
    \/ to_cache_open
    \/ to_cache_write
    \/ get_local_ip
    \/ get_externalip_choice
    \/ get_externalip_returns
    \/ get_ips_return
    \/ main_sleep

SpecCycle == InitCycle /\ [][NextCycle]_vars

(* time.sleep(args.repeat) returns. *)
SpecCycleFair == SpecCycle /\ WF_vars(main_sleep)

----------------------------------------------------------------------------
(* The older snapshot, src/ipwatch/src/ipwatch: IPgetter.__init__ holds    *)
(* the cache logic itself, and getips matches the blacklist in a loop of   *)
(* its own.                                                                *)

(* IPgetter.__init__, lines 69-90: the condition of the if, evaluated from *)
(* left to right.  Its last disjunct reads current_ts, a name the module   *)
(* never binds, so a cache that makes every earlier disjunct false raises  *)
(* NameError.                                                              *)
snapshot_cache_check(c) ==
    IF c.kind \in {"absent", "unparsable", "null"}
    THEN "refresh"
    ELSE IF c.kind = "scalar"
    THEN "TypeError"
    ELSE IF c.kind \in {"string", "array"}
    THEN IF Keys \subseteq c.has THEN "TypeError" ELSE "refresh"
    ELSE IF \/ c.expiry.t = "missing"
            \/ c.expiryDisplay.t = "missing"
            \/ c.servers.t = "missing"
            \/ c.expiry.t = "null"
            \/ c.expiryDisplay.t = "null"
            \/ c.servers.t = "null"
            \/ c.expiry.t # "float"
            \/ c.servers.t # "list"
            \/ Len(c.servers.l) = 0
    THEN "refresh"
    ELSE "NameError"

(* getips, lines 83-101, once myip() returned external_ip: the continue of *)
(* line 98 belongs to the inner for loop over the blacklist, so after that *)
(* loop line 101 returns whatever passed isipaddr.                         *)
snapshot_getips_body(external_ip, bl) ==
    IF ~isipaddr(external_ip) THEN "continue" ELSE "return"

SnapshotFrame ==
    /\ UNCHANGED <<envVars, diskVars, mainVars, filterVars, histVars,
                   raceVars, cfgVars>>
    /\ UNCHANGED <<file, slSource, slRefreshed, ipgetter, i, nFetch,
                   firstSucc, answer, fetchTotal, fetchSucc>>

(* A caller calls getips(try_count, blacklist). *)
snapshot_getips ==
    /\ pc = "idle"
    /\ op = "none"
    /\ op' = "snapshot_getips"
    /\ pc' = "snapshot_for"
    /\ result' = NoResult
    /\ try_count' \in 0..MaxTry
    /\ blacklist' = DEFAULT_BLACKLIST
    /\ counter' = 0
    /\ UNCHANGED <<cacheFile, downloads, server_list, slCache, slSeen,
                   local_ip, server, myipv>>
    /\ SnapshotFrame

(* getips, line 78: for counter in range(try_count), else line 103 *)
snapshot_for ==
    /\ pc = "snapshot_for"
    /\ IF counter < try_count
       THEN pc' = "snapshot_init" /\ UNCHANGED result
       ELSE Raise("ValueError: Could not get IPs")
    /\ UNCHANGED <<cacheFile, downloads, op, server_list, slCache, slSeen,
                   local_ip, server, myipv, try_count, blacklist, counter>>
    /\ SnapshotFrame

(* myip(): IPgetter.__init__, lines 65-109.  A refresh downloads the list  *)
(* (urlopen may raise) and writes the cache file.                          *)
snapshot_init ==
    /\ pc = "snapshot_init"
    /\ slSeen' = [c |-> cacheFile, ts |-> now]
    /\ LET check == snapshot_cache_check(cacheFile) IN
        IF check = "refresh"
        THEN \/ /\ slCache' = "refresh"
                /\ downloads' = downloads + 1
                /\ server_list' = BundledServers
                /\ cacheFile' = cache_content(now, BundledServers)
                /\ pc' = "snapshot_get_ips"
                /\ UNCHANGED result
             \/ /\ slCache' = "URLError"
                /\ Raise("URLError")
                /\ UNCHANGED <<cacheFile, downloads, server_list>>
        ELSE /\ slCache' = check
             /\ Raise(check)
             /\ UNCHANGED <<cacheFile, downloads, server_list>>
    /\ UNCHANGED <<op, local_ip, server, myipv, try_count, blacklist,
                   counter>>
    /\ SnapshotFrame

(* get_ips() over the plain list of the snapshot returns a local address,  *)
(* the address resolved ("" when no attempt gave one) and the service      *)
(* queried last; then lines 84-101 of getips.                              *)
snapshot_get_ips ==
    /\ pc = "snapshot_get_ips"
    /\ \E ext \in Resolved, k \in 1..Len(server_list) :
        /\ myipv' = ext
        /\ server' = server_list[k]
        /\ IF snapshot_getips_body(ext, blacklist) = "return"
           THEN pc' = "idle" /\ result' = Ok /\ UNCHANGED counter
           ELSE /\ pc' = "snapshot_for"
                /\ counter' = counter + 1
                /\ UNCHANGED result
    /\ local_ip' \in LocalIps \cup {LOOPBACK}
    /\ UNCHANGED <<cacheFile, downloads, op, server_list, slCache, slSeen,
                   try_count, blacklist>>
    /\ SnapshotFrame

NextSnapshot ==
    \/ snapshot_getips
    \/ snapshot_for
    \/ snapshot_init
    \/ snapshot_get_ips

SpecSnapshot == Init /\ [][NextSnapshot]_vars

----------------------------------------------------------------------------
(* Properties *)

(* A resolution of main that failed in getips or in the selection of a     *)
(* service, not in the environment (cache, bundled list, socket).          *)
ResolutionFailed ==
    /\ op = "main"
    /\ pc = "idle"
    /\ result.status = "raised"
    /\ result.exc \in {"ValueError: Could not get IPs",
                       "TypeError: not subscriptable"}

(* C1: during one getips(try_count, ...) at most try_count fetches are     *)
(* issued, and when every fetch failed exactly try_count fetches have been *)
(* issued when the failure is reported.                                    *)
C1_FetchesBoundedByTryCount ==
    op = "main" =>
        /\ fetchTotal <= try_count
        /\ (ResolutionFailed /\ fetchSucc = 0) => fetchTotal = try_count

(* C2: get_externalip stops at the first fetch that yields an address: no  *)
(* fetch is issued after it (k - 1 failures and a success are k fetches),  *)
(* and the address and the server it returns are those of that fetch.      *)
C2_StopsAtFirstSuccess ==
    /\ firstSucc.idx > 0 =>
        /\ nFetch = firstSucc.idx
        /\ myipv = firstSucc.ip
        /\ server = firstSucc.server
    /\ (op \in {"get_ips", "myip"} /\ pc = "idle" /\ result = Ok
            /\ firstSucc.idx = 0) => myipv = << >>

C2_Witness ==
    /\ op = "get_ips"
    /\ pc = "idle"
    /\ result = Ok
    /\ firstSucc.idx = 3
    /\ nFetch = 3
    /\ myipv = IP_PUB
    /\ server = firstSucc.server

C4_ReturnedAddressPassesFilters ==
    fOut.done =>
        LET patterns == split(fBl, ",")
            listed == \E k \in 1..Len(patterns) : fnmatch(fCand, patterns[k])
        IN  /\ fOut.body = "return" => isipaddr(fCand) /\ ~listed
            /\ (~isipaddr(fCand) \/ listed) => fOut.body = "continue"

C4_Witness ==
    /\ fOut.done
    /\ fCand = IP_PUB
    /\ fBl = BL_SECOND
    /\ fOut.body = "continue"
    /\ fOut.isipaddr

(* The cache contents C5 lists: no file, no JSON, or an object that lacks  *)
(* a field, has a null field, an expiry that is no float, servers that are *)
(* no list, or an empty servers list.                                      *)
ListedInvalid(c) ==
    \/ c.kind \in {"absent", "unparsable"}
    \/ /\ c.kind = "object"
       /\ \/ \E k \in Keys : c[k].t \in {"missing", "null"}
          \/ c.expiry.t # "float"
          \/ c.servers.t # "list"
          \/ c.servers.l = << >>

(* C5: from_cache returns no list from a cache file that is absent,        *)
(* unparsable, or an object with a missing or null field, a non-float      *)
(* expiry, a non-list or empty servers: it raises CacheExpired and the     *)
(* constructor refreshes.                                                  *)
C5_ListedInvalidCacheExpires ==
    (slCache # "none" /\ ListedInvalid(slSeen.c)) =>
        /\ slCache = "CacheExpired"
        /\ slSource # "cache"
        /\ pc = "sl_refresh" \/ slRefreshed

C5_Witness ==
    /\ slSeen.c = Obj(Float(StartNow + 1), Other, List(<< >>))
    /\ slCache = "CacheExpired"
    /\ slRefreshed
    /\ slSource = "builtin"
    /\ op = "ServerList"
    /\ result = Ok

WellFormed(c) ==
    /\ c.kind = "object"
    /\ c.expiry.t = "float"
    /\ c.expiryDisplay.t \notin {"missing", "null"}
    /\ c.servers.t = "list"
    /\ c.servers.l # << >>

(* C6: a well-formed cache whose expiry is not strictly later than the     *)
(* time of the load (expiry <= now) is treated as expired.                 *)
C6_ExpiryNotLaterThanNowExpires ==
    (slCache # "none" /\ WellFormed(slSeen.c) /\ slSeen.c.expiry.n <= slSeen.ts)
        => slCache = "CacheExpired"

(* C7: whatever the cache file holds, from_cache ends by returning the     *)
(* list or by raising CacheExpired; no other exception escapes it.         *)
C7_LoadReturnsOrExpires ==
    slCache \in {"none", "ok", "CacheExpired"}

(* C8: after a refresh the ServerList holds the content of the override    *)
(* file if one was given, and the bundled list otherwise.                  *)
C8_RefreshTakesOverrideElseBundled ==
    (op = "ServerList" /\ pc = "idle" /\ slRefreshed) =>
        /\ file = "good" => result = Ok /\ server_list = OverrideServers
        /\ (file = NoFile /\ result = Ok) => server_list = BundledServers

C10_OnlyExplicitDownload ==
    [][downloads' # downloads => (pc = "idle" /\ op' = "download")]_vars

C10_Witness ==
    /\ op = "ServerList"
    /\ pc = "idle"
    /\ result = Ok
    /\ slRefreshed
    /\ slSource = "builtin"
    /\ downloads = 0

(* C11: a refresh at time t of a non-empty list L leaves the cache file    *)
(* holding L with expiry t + 90 days, whatever it held before; a load of   *)
(* such a file at a time before its expiry returns exactly L, judges the   *)
(* cache valid and does not refresh.                                       *)
C11_RefreshedCacheRoundTrips ==
    /\ (op = "ServerList" /\ pc = "idle" /\ result = Ok /\ slRefreshed
            /\ server_list # << >>) =>
        cacheFile = Obj(Float(now + CacheDays), Other, List(server_list))
    /\ (/\ slCache # "none"
        /\ slSeen.c.kind = "object"
        /\ slSeen.c.expiry.t = "float"
        /\ slSeen.c.expiryDisplay = Other
        /\ slSeen.c.servers.t = "list"
        /\ slSeen.c.servers.l # << >>
        /\ slSeen.ts < slSeen.c.expiry.n) =>
        /\ slCache = "ok"
        /\ server_list = slSeen.c.servers.l
        /\ slSource = "cache"
        /\ ~slRefreshed

C11_Witness ==
    /\ op = "ServerList"
    /\ pc = "idle"
    /\ result = Ok
    /\ slSeen.c = Obj(Float(StartNow + CacheDays), Other, List(BundledServers))
    /\ slSeen.ts = StartNow + CacheDays - 1
    /\ slCache = "ok"
    /\ server_list = BundledServers
    /\ ~slRefreshed
    /\ cacheFile = slSeen.c

C13_LastWriterWins ==
    (/\ \A p \in Procs : rpc[p] = "done"
     /\ \A p \in Procs : rsl[p].cache = "CacheExpired") =>
        /\ \A p \in Procs : rsl[p].result = Ok /\ rsl[p].list # << >>
        /\ from_cache(cacheFile, now).out = "ok"
        /\ \E p \in Procs : cacheFile = rsl[p].wrote

(* The endpoint sequence of the service list the resolver holds. *)
CurrentList ==
    IF ipgetter.kind = "ServerList" THEN server_list ELSE ipgetter.list

(* C14: every service get_externalip queries is an element of the current *)
(* endpoint sequence, and with a non-empty sequence the selection itself   *)
(* does not fail.                                                          *)
C14_SelectionFromCurrentList ==
    /\ pc = "ext_fetch" =>
        \E k \in 1..Len(CurrentList) : server = CurrentList[k]
    /\ (result.status = "raised"
            /\ result.exc \in {"TypeError: not subscriptable", "IndexError"})
        => CurrentList = << >>

(* C15: a fetch never propagates an exception: on a timeout, a connection *)
(* error or a body in which no address is found (whichever decoding it     *)
(* took) it returns the empty string and the loop of get_externalip goes   *)
(* on to its next attempt; an address found in the body is returned.       *)
C15_FetchNeverRaises ==
    answer.kind # "none" =>
        /\ result.status # "raised"
        /\ (answer.kind \in {"timeout", "URLError"} \/ answer.match = << >>)
            => /\ myipv = << >>
               /\ i < FetchRange => pc \in {"ext_choice", "ext_fetch"}
        /\ (answer.kind \in {"body", "latin1"} /\ answer.match # << >>)
            => myipv = answer.match

C15_Witness ==
    /\ op = "get_ips"
    /\ pc = "ext_choice"
    /\ answer.kind = "timeout"
    /\ myipv = << >>
    /\ i = 1
    /\ nFetch = 1
    /\ result = NoResult

(* C16: get_local_ip never raises: whichever of its steps fails (creating  *)
(* the socket, connect, getsockname), it returns "127.0.0.1".              *)
C16_ProbeNeverFails ==
    /\ ~(result.status = "raised" /\ result.exc = "OSError: socket")
    /\ (pc = "idle" /\ op = "get_ips" /\ result.status = "raised")
        => local_ip # << >>

(* C17: in a cycle in which getips returned an address pair, sendmail is   *)
(* called (once) if and only if the external address differs from the      *)
(* saved one, or the local address differs from the saved one, or force is *)
(* set; without a saved-IP file it is always called.                       *)
C17_NotifyIffChanged ==
    (op = "main" /\ acquired) =>
        /\ cycleNotify \in {0, 1}
        /\ cycleNotify = 1 <=>
            \/ old.none
            \/ myipv # old.ext
            \/ local_ip # old.loc
            \/ args.force

C17_Witness ==
    /\ op = "main"
    /\ cycles = 2
    /\ acquired
    /\ cycleNotify = 0
    /\ ~args.force
    /\ old.ext = IP_ALT
    /\ myipv = IP_ALT
    /\ local_ip = old.loc

(* C18: the saved-IP file is read at the start of a cycle, before the      *)
(* resolution, and only there; it is written only in the step in which     *)
(* getips returned an accepted pair, with that pair; as long as a cycle    *)
(* has acquired nothing the file is what the cycle read.                   *)
C18_SavedFileFrame ==
    /\ [](op = "main" /\ cycles >= 1 /\ pc # "getoldips" /\ ~acquired
            => getoldips(savedFile).old = old)
    /\ [][savedFile' # savedFile =>
            /\ pc = "ext_return"
            /\ acquired'
            /\ getips_body(myipv, blacklist) = "return"
            /\ savedFile' = updateoldips(myipv, local_ip)]_vars
    /\ [][old' # old =>
            /\ pc = "getoldips"
            /\ old' = getoldips(savedFile).old
            /\ counter' = 0]_vars

C18_Witness ==
    /\ op = "main"
    /\ pc = "idle"
    /\ result = Raised("ValueError: Could not get IPs")
    /\ try_count >= 1
    /\ counter = try_count
    /\ myipv = IP_PRIV
    /\ ~acquired
    /\ savedFile = updateoldips(IP_PUB, LOOPBACK)

C20_RepeatControlsCycles ==
    /\ [](op = "main" =>
            /\ args.repeat <= 0 => (cycles <= 1 /\ pc # "sleep")
            /\ (args.repeat <= 0 /\ acquired
                    /\ result # Raised("CalledProcessError"))
                => (pc = "idle" /\ result = Ok /\ cycles = 1)
            /\ (args.repeat > 0 /\ acquired
                    /\ result # Raised("CalledProcessError"))
                => pc \in {"sleep", "getoldips"})
    /\ (pc = "sleep") ~> (pc = "getoldips" /\ args.repeat > 0)
    /\ [][cycles' = cycles + 1 =>
            /\ pc = "getoldips"
            /\ old' = getoldips(savedFile).old
            /\ ~acquired']_vars
    /\ [][(pc = "getips_loop" /\ pc' # "idle") =>
            /\ pc' = "sl_from_cache"
            /\ server_list' = << >>
            /\ slCache' = "none"]_vars

C20_Witness ==
    /\ op = "main"
    /\ args.repeat > 0
    /\ cycles = 2
    /\ pc = "local_ip"
    /\ slCache = "ok"
    /\ old.ext = IP_ALT
    /\ savedFile = updateoldips(IP_ALT, IP_LAN)

(* C21: isinblacklist is true exactly when some pattern of the             *)
(* comma-separated blacklist matches the candidate (fnmatch); the pattern  *)
(* its warning names is the first one that matches, in list order; with    *)
(* an empty blacklist it is false for every candidate.  With               *)
(* "192.168.*.*,10.*.*.*" and 192.168.1.5 it is true and names the first   *)
(* pattern.                                                                *)
C21_BlacklistedIffSomePatternMatches ==
    fOut.done =>
        LET patterns == split(fBl, ",")
            matching == {k \in 1..Len(patterns) : fnmatch(fCand, patterns[k])}
        IN  /\ fOut.isinblacklist <=> matching # {}
            /\ matching = {} => fOut.black_ip = 0
            /\ matching # {} =>
                /\ fOut.black_ip \in matching
                /\ \A k \in matching : fOut.black_ip <= k
            /\ fBl = << >> => ~fOut.isinblacklist
            /\ (fBl = DEFAULT_BLACKLIST /\ fCand = IP_LAN) =>
                /\ fOut.isinblacklist
                /\ fOut.black_ip = 1

(* C22: isipaddr accepts exactly the strings that are four groups of one   *)
(* to three decimal digits separated by dots, with nothing before or       *)
(* after them.                                                             *)
C22_AcceptsExactlyQuads ==
    fOut.done => (fOut.isipaddr <=> MatchesQuad(fCand))

C24_NoDuplicateNotification ==
    /\ [][(/\ op = "main"
           /\ pc = "getoldips"
           /\ acquired
           /\ cycleNotify = 1
           /\ cycles' = cycles + 1)
          => (/\ pc' = "getips_loop"
              /\ old' = [none |-> FALSE, ext |-> myipv, loc |-> local_ip])]_vars
    /\ [](/\ op = "main"
          /\ acquired
          /\ ~args.force
          /\ ~old.none
          /\ old.ext = myipv
          /\ old.loc = local_ip
          => (/\ cycleNotify = 0
              /\ savedFile = updateoldips(myipv, local_ip)))
    /\ [][savedFile' # savedFile => cycleNotify' = cycleNotify + 1]_vars

C24_Witness ==
    /\ op = "main"
    /\ pc = "sleep"
    /\ cycles = 2
    /\ ~args.force
    /\ ~args.dry_run
    /\ acquired
    /\ cycleNotify = 0
    /\ mails = 1
    /\ myipv = IP_ALT
    /\ old = [none |-> FALSE, ext |-> IP_ALT, loc |-> local_ip]

(* C25: the saved-IP file is overwritten only in a step in which sendmail  *)
(* returned (the mail command ran without error, or dry_run); when the     *)
(* mail command failed the file still parses to what the cycle read, so a  *)
(* run that reads it and acquires the same changed pair finds the change   *)
(* again.                                                                  *)
C25_FileUpdatedOnlyAfterMail ==
    /\ [][savedFile' # savedFile =>
            /\ result' # Raised("CalledProcessError")
            /\ cycleNotify' = cycleNotify + 1
            /\ args.dry_run \/ mails' = mails + 1
            /\ savedFile' = updateoldips(myipv', local_ip)]_vars
    /\ [](/\ op = "main"
          /\ result = Raised("CalledProcessError")
          => (/\ getoldips(savedFile).old = old
              /\ cycleNotify = 1
              /\ (old.none \/ myipv # old.ext \/ local_ip # old.loc) =>
                    notify_needed(getoldips(savedFile).old, myipv, local_ip,
                                  FALSE)))

C25_Witness ==
    /\ op = "main"
    /\ pc = "idle"
    /\ result = Raised("CalledProcessError")
    /\ ~args.force
    /\ cycles = 1
    /\ mails = 0
    /\ myipv = IP_ALT
    /\ old.ext = IP_PUB
    /\ savedFile = updateoldips(IP_PUB, LOOPBACK)

C27_ValidLoadLeavesCacheAlone ==
    /\ [][(/\ pc = "sl_from_cache"
           /\ WellFormed(cacheFile)
           /\ cacheFile.expiry.n > now)
          => (/\ cacheFile' = cacheFile
              /\ slCache' = "ok"
              /\ server_list' = cacheFile.servers.l
              /\ ~slRefreshed'
              /\ pc' \notin {"sl_refresh", "sl_to_cache",
                             "sl_to_cache_write"})]_vars
    /\ [][cacheFile' # cacheFile =>
            /\ slRefreshed
            /\ ~(WellFormed(slSeen.c) /\ slSeen.c.expiry.n >= slSeen.ts)]_vars
    /\ [](slCache = "ok" =>
            /\ cacheFile = slSeen.c
            /\ slSeen.ts <= slSeen.c.expiry.n)

C27_Witness ==
    /\ op = "ServerList"
    /\ pc = "idle"
    /\ result = Ok
    /\ slCache = "ok"
    /\ ~slRefreshed
    /\ prevList = <<"s2">>
    /\ server_list = <<"s2">>
    /\ downloads = 0
    /\ cacheFile = Obj(Float(StartNow + 1), Other, List(<<"s2">>))
    /\ now = StartNow

(* C28: a call of get_externalip that has ended, by returning or by        *)
(* raising, has issued at least 1 and at most 7 fetches, and a getips call *)
(* has issued at most 7 * try_count fetches.                               *)
C28_FetchesPerCall ==
    /\ (pc = "ext_return" \/ result = Raised("TypeError: not subscriptable"))
        => nFetch \in 1..FetchRange
    /\ op = "main" => fetchTotal <= FetchRange * try_count

(* C29: in the snapshot, an external address that getips returns matches   *)
(* no pattern of the blacklist.                                            *)
C29_SnapshotNeverReturnsBlacklisted ==
    (op = "snapshot_getips" /\ pc = "idle" /\ result = Ok) =>
        ~isinblacklist(myipv, blacklist)

(* C30: in the snapshot, constructing an IPgetter over a well-formed cache *)
(* file whose expiry lies ahead succeeds, takes the cached list, downloads *)
(* nothing and leaves the cache file as it was.                            *)
C30_SnapshotUsesValidCache ==
    (/\ op = "snapshot_getips"
     /\ slCache # "none"
     /\ pc # "snapshot_init"
     /\ WellFormed(slSeen.c)
     /\ slSeen.c.expiry.n > slSeen.ts) =>
        /\ result.status # "raised"
        /\ server_list = slSeen.c.servers.l
        /\ cacheFile = slSeen.c

============================================================================
